---------------------------- MODULE Spec2Model ----------------------------
(***************************************************************************)
(* A model of the two tutorial scripts of py-research-workflows:           *)
(*   data_management_in_python.py   ("dm")                                 *)
(*   additional_research_tools.py   ("at")                                 *)
(* Each script is a flat sequence of top-level Python statements.  The     *)
(* model runs a script statement by statement: a statement either          *)
(* completes (its effect on the working directory, on the object cache and *)
(* on the DataFrames is applied) or raises, and nothing catches the        *)
(* exception.  Floats are modelled as exact rationals n/d.                 *)
(***************************************************************************)
EXTENDS Integers, Sequences, FiniteSets, TLC

VARIABLES
    script,     \* which script runs: "dm", "at" ("" when no script runs)
    pc,         \* index into the script of the next statement
    it,         \* iterations a running for-loop has completed
    status,     \* "running" | "raised" (an unhandled exception ended the run)
    fs,         \* files present in the working directory
    log,        \* completed file operations, in order: <<op, file>>
    db,         \* content of the object-cache files: [path, key, val] records
    cache,      \* the script's variable `cache`: the open handle [path, key]
    result,     \* the script's variable `result` (additional_research_tools.py:798)
    data,       \* the list of tuples the DataFrame literal is built from
    heap,       \* DataFrame objects, by object id
    env,        \* the script's variables df, copy_df: object ids (0: unbound)
    out,        \* value of the last expression statement that is only displayed
    value,      \* argument of a stand-alone call of sort_ratios
    returned    \* what that call returned

vars == <<script, pc, it, status, fs, log, db, cache, result, data, heap, env,
          out, value, returned>>

(***************************************************************************)
(* Bounds of the model.                                                    *)
(***************************************************************************)
\* Longest list of tuples drawn for the DataFrame (the script's own nine-row
\* list is always among the inputs as well).
MaxRows == 2
\* Floats n/d drawn as arguments of sort_ratios: |n| <= 2*MaxNum, 1 <= d <= MaxDen.
MaxNum == 6
MaxDen == 3

(***************************************************************************)
(* Cell values.  k is the Python type of the value.                        *)
(***************************************************************************)
Str(s) == [k |-> "str", s |-> s, n |-> 0, d |-> 1]
Flt(n, d) == [k |-> "float", s |-> "", n |-> n, d |-> d]
IntV(n) == [k |-> "int", s |-> "", n |-> n, d |-> 1]
Datetime(s) == [k |-> "datetime", s |-> s, n |-> 0, d |-> 1]
NaN == [k |-> "nan", s |-> "", n |-> 0, d |-> 0]
None == [k |-> "none", s |-> "", n |-> 0, d |-> 1]
Unbound == [k |-> "unbound", s |-> "", n |-> 0, d |-> 1]

Abs(x) == IF x < 0 THEN -x ELSE x

RECURSIVE GCD(_, _)
GCD(a, b) == IF b = 0 THEN a ELSE GCD(b, a % b)

\* The float n/d in lowest terms (d = 0: +inf / -inf; 0/0: nan).
Rat(n, d) ==
    IF n = 0 /\ d = 0 THEN NaN
    ELSE LET g == GCD(Abs(n), Abs(d))
             sgn == IF d < 0 THEN -1 ELSE 1
         IN Flt(sgn * (n \div g), sgn * (d \div g))

RatAdd(a, b) ==
    IF a.k = "nan" \/ b.k = "nan" THEN NaN
    ELSE Rat(a.n * b.d + b.n * a.d, a.d * b.d)

RatDiv(a, b) ==
    IF a.k = "nan" \/ b.k = "nan" THEN NaN
    ELSE Rat(a.n * b.d, a.d * b.n)

(***************************************************************************)
(* sort_ratios (data_management_in_python.py:177-190).                     *)
(***************************************************************************)
\* pd.isnull(value)
isnull(v) == v.k \in {"nan", "none"}

\* isinstance(value, np.float): np.float is the builtin float, so a Python
\* float (nan included) is one, an int or a str is not.
isinstance_float(v) == v.k \in {"float", "nan"}

sort_ratios(v) ==
    IF isnull(v) \/ ~isinstance_float(v) THEN v
    ELSE IF v.n = v.d THEN Str("Even")
    ELSE IF v.n < v.d THEN Str("Low")
    ELSE IF v.n >= v.d THEN Str("High")
    ELSE None

(***************************************************************************)
(* DataFrames.  A frame has its column labels in order, its index (row     *)
(* labels) in row order, and one function column -> cell per row.  A       *)
(* Series is an index with one value per row.                              *)
(***************************************************************************)
NoFrame == [cols |-> <<>>, index |-> <<>>, rows |-> <<>>]

Range(s) == {s[i] : i \in DOMAIN s}

IndexOf(s, x) == CHOOSE i \in DOMAIN s : s[i] = x

\* The default index of a new frame: 0 .. n-1.
RangeIndex(n) == [i \in 1..n |-> i - 1]

\* pd.DataFrame(data=<list of tuples>, columns=<labels>)
DataFrame(tuples, columns) ==
    [cols |-> columns,
     index |-> RangeIndex(Len(tuples)),
     rows |-> [i \in 1..Len(tuples) |->
                 [c \in Range(columns) |-> tuples[i][IndexOf(columns, c)]]]]

\* df[c]
Column(f, c) ==
    [index |-> f.index, values |-> [i \in DOMAIN f.rows |-> f.rows[i][c]]]

\* The value a Series holds for an index label (missing when it has none).
Lookup(s, label) ==
    IF \E j \in DOMAIN s.index : s.index[j] = label
    THEN s.values[CHOOSE j \in DOMAIN s.index : s.index[j] = label]
    ELSE NaN

\* df[c] = <Series>: the values are aligned on the index, not on the position.
SetColumn(f, c, s) ==
    [cols |-> IF c \in Range(f.cols) THEN f.cols ELSE Append(f.cols, c),
     index |-> f.index,
     rows |-> [i \in DOMAIN f.rows |->
                 [x \in DOMAIN f.rows[i] \cup {c} |->
                    IF x = c THEN Lookup(s, f.index[i]) ELSE f.rows[i][x]]]]

\* df[c] = <scalar>
SetColumnScalar(f, c, v) ==
    SetColumn(f, c, [index |-> f.index, values |-> [i \in DOMAIN f.rows |-> v]])

\* Python's order of the strings that occur in the data.
StrOrder ==
    <<"1/2/2000", "1/3/2000", "1/4/2000", "FL", "GA", "PA",
      "Publix", "Trader Joes", "Walmart">>

CellLess(a, b) ==
    IF a.k \in {"str", "datetime"} THEN IndexOf(StrOrder, a.s) < IndexOf(StrOrder, b.s)
    ELSE a.n * b.d < b.n * a.d

\* Lexicographic order of two key tuples of the same length.
TupleLess(a, b) ==
    \E i \in DOMAIN a :
        /\ CellLess(a[i], b[i])
        /\ \A j \in 1..(i - 1) : a[j] = b[j]

\* The values of the `by` columns in row i.
KeyOf(f, i, by) == [k \in DOMAIN by |-> f.rows[i][by[k]]]

\* The positions of a group's rows, in row order.
GroupPositions(f, by, key) ==
    SelectSeq([i \in 1..Len(f.rows) |-> i], LAMBDA i : KeyOf(f, i, by) = key)

RECURSIVE SumCells(_)
SumCells(s) == IF s = <<>> THEN Flt(0, 1) ELSE RatAdd(Head(s), SumCells(Tail(s)))

\* mean of a sequence of cells, missing values skipped
Mean(s) ==
    LET v == SelectSeq(s, LAMBDA x : ~isnull(x))
    IN IF v = <<>> THEN NaN ELSE RatDiv(SumCells(v), Flt(Len(v), 1))

\* The columns a groupby aggregates with 'mean': those that are not keys and
\* hold numbers (a column of strings is dropped).
NumericCols(f, by) ==
    SelectSeq(f.cols, LAMBDA c :
        /\ c \notin Range(by)
        /\ \A i \in DOMAIN f.rows : f.rows[i][c].k \in {"float", "int", "nan"})

GroupMean(f, by, key, c) ==
    LET g == GroupPositions(f, by, key)
    IN Mean([k \in DOMAIN g |-> f.rows[g[k]][c]])

\* df.groupby(by).transform('mean'): a frame with the index of df, each row
\* holding the means of its group.
TransformMean(f, by) ==
    LET nc == NumericCols(f, by)
    IN [cols |-> nc,
        index |-> f.index,
        rows |-> [i \in DOMAIN f.rows |->
                    [c \in Range(nc) |-> GroupMean(f, by, KeyOf(f, i, by), c)]]]

RECURSIVE SortedSeq(_)
\* A set of key tuples as a sequence in ascending order.
SortedSeq(S) ==
    IF S = {} THEN <<>>
    ELSE LET m == CHOOSE x \in S : \A y \in S \ {x} : TupleLess(x, y)
         IN <<m>> \o SortedSeq(S \ {m})

\* df.groupby(by).mean() / df.groupby(by, as_index=False).mean(): one row
\* per distinct key, keys ascending.
GroupbyMean(f, by, as_index) ==
    LET keys == SortedSeq({KeyOf(f, i, by) : i \in DOMAIN f.rows})
        nc == NumericCols(f, by)
    IN [cols |-> IF as_index THEN nc ELSE by \o nc,
        index |-> IF as_index THEN keys ELSE RangeIndex(Len(keys)),
        rows |-> [g \in DOMAIN keys |->
                    [c \in Range(nc) \cup (IF as_index THEN {} ELSE Range(by)) |->
                        IF c \in Range(nc) THEN GroupMean(f, by, keys[g], c)
                        ELSE keys[g][IndexOf(by, c)]]]]

\* series.apply(sort_ratios)
apply_sort_ratios(s) ==
    [index |-> s.index, values |-> [i \in DOMAIN s.values |-> sort_ratios(s.values[i])]]

\* df.applymap(sort_ratios): a new frame, sort_ratios applied to every cell.
applymap_sort_ratios(f) ==
    [cols |-> f.cols,
     index |-> f.index,
     rows |-> [i \in DOMAIN f.rows |->
                 [c \in DOMAIN f.rows[i] |-> sort_ratios(f.rows[i][c])]]]

\* series / series, element by element
SeriesDiv(a, b) ==
    [index |-> a.index,
     values |-> [i \in DOMAIN a.values |-> RatDiv(a.values[i], Lookup(b, a.index[i]))]]

RECURSIVE Flatten(_)
Flatten(ss) == IF ss = <<>> THEN <<>> ELSE Head(ss) \o Flatten(Tail(ss))

\* left.merge(right, how='left', on=on): every row of left, in order, with
\* the columns of each matching row of right (missing when none matches).
Merge(left, right, on) ==
    LET extra == SelectSeq(right.cols, LAMBDA c : c # on)
        matches(i) == SelectSeq([j \in 1..Len(right.rows) |-> j],
                                LAMBDA j : right.rows[j][on] = left.rows[i][on])
        joined(i, j) == [c \in Range(left.cols) \cup Range(extra) |->
                            IF c \in Range(left.cols) THEN left.rows[i][c]
                            ELSE IF j = 0 THEN NaN ELSE right.rows[j][c]]
        rowsOf(i) == IF matches(i) = <<>> THEN <<joined(i, 0)>>
                     ELSE [k \in DOMAIN matches(i) |-> joined(i, matches(i)[k])]
        all == Flatten([i \in 1..Len(left.rows) |-> rowsOf(i)])
    IN [cols |-> left.cols \o extra, index |-> RangeIndex(Len(all)), rows |-> all]

\* df.drop(c, axis=1)
Drop(f, c) ==
    [cols |-> SelectSeq(f.cols, LAMBDA x : x # c),
     index |-> f.index,
     rows |-> [i \in DOMAIN f.rows |-> [x \in DOMAIN f.rows[i] \ {c} |-> f.rows[i][x]]]]

\* df.append(other): a new frame, the rows of other after those of df.
AppendFrame(f, other) ==
    LET cols == f.cols \o SelectSeq(other.cols, LAMBDA c : c \notin Range(f.cols))
        fill(r) == [c \in Range(cols) |-> IF c \in DOMAIN r THEN r[c] ELSE NaN]
    IN [cols |-> cols,
        index |-> f.index \o other.index,
        rows |-> [i \in DOMAIN f.rows |-> fill(f.rows[i])]
                 \o [i \in DOMAIN other.rows |-> fill(other.rows[i])]]

RECURSIVE InsertSorted(_, _, _, _)
\* Position p put into the sorted sequence of positions, after its equals.
InsertSorted(f, by, sorted, p) ==
    IF sorted = <<>> THEN <<p>>
    ELSE IF TupleLess(KeyOf(f, p, by), KeyOf(f, Head(sorted), by))
         THEN <<p>> \o sorted
         ELSE <<Head(sorted)>> \o InsertSorted(f, by, Tail(sorted), p)

RECURSIVE SortPositions(_, _, _)
SortPositions(f, by, n) ==
    IF n = 0 THEN <<>>
    ELSE InsertSorted(f, by, SortPositions(f, by, n - 1), n)

\* df.sort_values(by): the rows, each with its index label, ascending by key.
SortValues(f, by) ==
    LET p == SortPositions(f, by, Len(f.rows))
    IN [cols |-> f.cols,
        index |-> [i \in DOMAIN p |-> f.index[p[i]]],
        rows |-> [i \in DOMAIN p |-> f.rows[p[i]]]]

\* series.shift(1): every value one row down, the first row missing.
Shift(s) ==
    [index |-> s.index,
     values |-> [i \in DOMAIN s.values |-> IF i = 1 THEN NaN ELSE s.values[i - 1]]]

\* df[c].shift(1), the grouping ignored
UngroupedShift(f, by, c) == Shift(Column(f, c))

\* df.groupby(by)[c].shift(1): the shift is done inside each group.
GroupShift(f, by, c) ==
    LET group(i) == GroupPositions(f, <<by>>, KeyOf(f, i, <<by>>))
        k(i) == IndexOf(group(i), i)
    IN [index |-> f.index,
        values |-> [i \in DOMAIN f.rows |->
                      IF k(i) = 1 THEN NaN ELSE f.rows[group(i)[k(i) - 1]][c]]]

\* pd.to_datetime(series)
ToDatetime(s) ==
    [index |-> s.index,
     values |-> [i \in DOMAIN s.values |->
                   IF s.values[i].k = "str" THEN Datetime(s.values[i].s) ELSE s.values[i]]]

\* df.rename(columns={old: new})
Rename(f, old, new) ==
    [cols |-> [i \in DOMAIN f.cols |-> IF f.cols[i] = old THEN new ELSE f.cols[i]],
     index |-> f.index,
     rows |-> [i \in DOMAIN f.rows |->
                 [x \in (DOMAIN f.rows[i] \ {old}) \cup
                        (IF old \in DOMAIN f.rows[i] THEN {new} ELSE {}) |->
                    IF x = new /\ old \in DOMAIN f.rows[i] THEN f.rows[i][old]
                    ELSE f.rows[i][x]]]]

(***************************************************************************)
(* The scripts.  A statement is [line, op, args]: the source line it       *)
(* starts on, what it does, and its arguments.  "eval" is a statement      *)
(* whose effect is on nothing the model tracks (an import, a def, a plot,  *)
(* a regression, a displayed expression).                                  *)
(***************************************************************************)
Stmt(line, op, args) == [line |-> line, op |-> op, args |-> args]

Evals(lines) == [i \in DOMAIN lines |-> Stmt(lines[i], "eval", <<>>)]

\* data_management_in_python.py:66-76, returns in hundredths
ToyData ==
    << <<Str("Walmart"), Str("FL"), Str("1/2/2000"), Flt(2, 100)>>,
       <<Str("Walmart"), Str("FL"), Str("1/3/2000"), Flt(3, 100)>>,
       <<Str("Walmart"), Str("FL"), Str("1/4/2000"), Flt(4, 100)>>,
       <<Str("Trader Joes"), Str("GA"), Str("1/2/2000"), Flt(6, 100)>>,
       <<Str("Trader Joes"), Str("GA"), Str("1/3/2000"), Flt(7, 100)>>,
       <<Str("Trader Joes"), Str("GA"), Str("1/4/2000"), Flt(8, 100)>>,
       <<Str("Publix"), Str("FL"), Str("1/2/2000"), Flt(10, 100)>>,
       <<Str("Publix"), Str("FL"), Str("1/3/2000"), Flt(11, 100)>>,
       <<Str("Publix"), Str("FL"), Str("1/4/2000"), Flt(12, 100)>> >>

\* data_management_in_python.py:77
DfColumns == <<"Company", "State", "Date", "Return">>

\* data_management_in_python.py:211-218
employment_df ==
    DataFrame(<< <<Str("FL"), Flt(6, 100)>>,
                 <<Str("GA"), Flt(8, 100)>>,
                 <<Str("PA"), Flt(7, 100)>> >>,
              <<"State", "Unemployment">>)

\* data_management_in_python.py:63-281
DMData ==
    Evals(<<63>>)
    \o <<Stmt(65, "make_df", <<>>)>>
    \o Evals(<<87, 107, 109, 111, 113, 115, 118, 132>>)
    \o <<Stmt(139, "groupby_mean", <<TRUE>>),
         Stmt(147, "groupby_mean", <<FALSE>>),
         Stmt(159, "transform_mean", <<>>)>>
    \o Evals(<<160>>)
    \o <<Stmt(167, "ratio", <<>>)>>
    \o Evals(<<168, 175, 177>>)
    \o <<Stmt(192, "apply_sort_ratios", <<>>)>>
    \o Evals(<<193>>)
    \o <<Stmt(195, "applymap", <<>>)>>
    \o Evals(<<211, 219>>)
    \o <<Stmt(221, "merge", <<>>)>>
    \o Evals(<<222>>)
    \o <<Stmt(230, "copy", <<>>),
         Stmt(231, "extra_col", <<>>),
         Stmt(232, "drop_col", <<>>),
         Stmt(233, "append", <<>>)>>
    \o Evals(<<240, 241, 249>>)
    \o <<Stmt(271, "sort_values", <<>>),
         Stmt(272, "shift", <<>>)>>
    \o Evals(<<273>>)
    \o <<Stmt(280, "group_shift", <<>>)>>
    \o Evals(<<281>>)

\* data_management_in_python.py:310-515
DMAnalysis ==
    Evals(<<310, 311, 313, 314, 315, 316, 317, 325, 326, 333, 340, 349, 373, 382>>)
    \o <<Stmt(384, "to_datetime", <<>>)>>
    \o Evals(<<385, 397, 399, 401, 409, 417, 418, 437, 439, 441, 442, 443>>)
    \o <<Stmt(451, "rename", <<>>)>>
    \o Evals(<<452, 453, 454, 462, 463, 464, 471, 473, 474, 482, 490,
               498, 506, 507, 515>>)

\* to_latex(df, filepath='temp.tex')
to_latex_filepath == "temp.tex"

\* data_management_in_python.py:524-548
DMLatex ==
    Evals(<<524, 542>>) \o <<Stmt(548, "write", <<to_latex_filepath>>)>>

\* The section with a SAS file written as well.
DMInputOutputWithSas ==
    <<Stmt(563, "write", <<"temp.csv">>),
      Stmt(564, "write", <<"temp.xlsx">>),
      Stmt(565, "write", <<"temp.dta">>),
      Stmt(566, "write", <<"temp.sas7bdat">>),
      Stmt(568, "read", <<"temp.csv">>),
      Stmt(570, "read", <<"temp.xlsx">>),
      Stmt(572, "read", <<"temp.dta">>)>>

\* data_management_in_python.py:563-572
DMInputOutput ==
    <<Stmt(563, "write", <<"temp.csv">>),
      Stmt(564, "write", <<"temp.xlsx">>),
      Stmt(565, "write", <<"temp.dta">>),
      Stmt(568, "read", <<"temp.csv">>),
      Stmt(570, "read", <<"temp.xlsx">>),
      Stmt(572, "read", <<"temp.dta">>)>>

\* The list with temp.tex forgotten.
clean_files_without_tex == <<"temp.csv", "temp.xlsx", "temp.dta">>

\* data_management_in_python.py:587-592
clean_files == <<"temp.csv", "temp.xlsx", "temp.dta", "temp.tex">>

\* The clean-up with the frame displayed once more after it.
DMCleanUpThenDisplay ==
    Evals(<<585, 587>>) \o <<Stmt(594, "remove", clean_files)>> \o Evals(<<596>>)

\* data_management_in_python.py:585-595
DMCleanUp == Evals(<<585, 587>>) \o <<Stmt(594, "remove", clean_files)>>

\* The script with the Excel file never read back.
DMScriptExcelNotRead ==
    DMData \o DMAnalysis \o DMLatex
    \o SelectSeq(DMInputOutput, LAMBDA s : s.line # 570) \o DMCleanUp

DMScript == DMData \o DMAnalysis \o DMLatex \o DMInputOutput \o DMCleanUp

\* additional_research_tools.py:40-417
ATPyexlatex ==
    Evals(<<40, 41, 42, 67, 69, 70, 77, 84, 86, 99, 100, 107, 119, 122, 123, 124,
            131, 145, 146, 153, 162, 170, 179, 180, 188, 190, 204, 205, 213, 214>>)
    \o <<Stmt(216, "write", <<"My Subfigure.pdf">>)>>
    \o Evals(<<227, 228, 236, 244, 252, 262, 271, 278, 287, 293, 324, 331, 345,
               352, 354, 379, 402>>)

\* additional_research_tools.py:429-431
temp_files_pyexlatex == <<"My Subfigure.pdf">>

\* additional_research_tools.py:427-434
ATCleanUp == Evals(<<427, 429>>) \o <<Stmt(433, "remove", temp_files_pyexlatex)>>

\* additional_research_tools.py:456-715
ATRegtoolsPdUtils ==
    Evals(<<456, 460, 461, 462, 463, 464, 465, 466, 474, 476, 481, 489, 504, 512,
            524, 526, 539, 558, 569, 571, 582, 584, 602, 604, 606, 616, 618, 633,
            649, 664, 683, 700, 715>>)

\* ObjectCache('cache.zodb', ('a', 'b')), the first session
first_session == <<"cache.zodb", <<"a", "b">>>>

\* The later session opened with another key.
later_session_other_key == <<"cache.zodb", <<"a", "c">>>>

\* ObjectCache('cache.zodb', ('a', 'b')), the later session
later_session == <<"cache.zodb", <<"a", "b">>>>

\* additional_research_tools.py:791-799
ATObjcache ==
    Evals(<<791>>)
    \o <<Stmt(793, "cache_open", first_session),
         Stmt(794, "cache_store", <<IntV(5)>>),
         Stmt(797, "cache_open", later_session),
         Stmt(798, "cache_get", <<>>)>>
    \o Evals(<<799>>)

\* additional_research_tools.py:811-816
temp_files_objcache ==
    <<"cache.zodb", "cache.zodb.index", "cache.zodb.lock", "cache.zodb.tmp">>

\* additional_research_tools.py:809-819
ATObjcacheCleanUp == Evals(<<809, 811>>) \o <<Stmt(818, "remove", temp_files_objcache)>>

ATScript ==
    ATPyexlatex \o ATCleanUp \o ATRegtoolsPdUtils \o ATObjcache \o ATObjcacheCleanUp

Script ==
    IF script = "dm" THEN DMScript ELSE IF script = "at" THEN ATScript ELSE <<>>

(***************************************************************************)
(* Inputs.                                                                 *)
(***************************************************************************)
\* Lists of up to MaxRows distinct tuples of the script's data, in any
\* order, and the script's own list.
InputData ==
    {ToyData} \cup
    {[i \in DOMAIN p |-> ToyData[p[i]]] :
        p \in {q \in UNION {[1..n -> DOMAIN ToyData] : n \in 1..MaxRows} :
                 \A i, j \in DOMAIN q : i # j => q[i] # q[j]}}

NoHandle == [path |-> "", key |-> <<>>]

Init ==
    /\ script \in {"dm", "at"}
    /\ data \in (IF script = "dm" THEN InputData ELSE {<<>>})
    /\ pc = 1
    /\ it = 0
    /\ status = "running"
    /\ fs = {}
    /\ log = <<>>
    /\ db = {}
    /\ cache = NoHandle
    /\ result = Unbound
    /\ heap = <<>>
    /\ env = [df |-> 0, copy_df |-> 0]
    /\ out = NoFrame
    /\ value = Unbound
    /\ returned = Unbound

(***************************************************************************)
(* Running a script.                                                       *)
(***************************************************************************)
Running == status = "running" /\ pc \in DOMAIN Script

Cur == Script[pc]

At(op) == Running /\ Cur.op = op

\* The last statement has completed.
Finished == status = "running" /\ script # "" /\ pc = Len(Script) + 1

\* The frames the script's variables df and copy_df are bound to.
Df == heap[env.df]
CopyDf == heap[env.copy_df]

\* Control passes to the next statement.
Advance ==
    /\ pc' = pc + 1
    /\ UNCHANGED <<script, it, status, data, value, returned>>

\* <name>[c] = ... : the object the name is bound to is changed in place.
InPlace(id, frame) ==
    /\ heap' = [heap EXCEPT ![id] = frame]
    /\ Advance
    /\ UNCHANGED <<fs, log, db, cache, result, env, out>>

\* An expression statement: its value is displayed and bound to no name.
Display(frame) ==
    /\ out' = frame
    /\ Advance
    /\ UNCHANGED <<fs, log, db, cache, result, heap, env>>

Eval == At("eval") /\ Display(NoFrame)

\* df = pd.DataFrame(data=[...], columns=[...])
MakeDf ==
    /\ At("make_df")
    /\ heap' = Append(heap, DataFrame(data, DfColumns))
    /\ env' = [env EXCEPT !.df = Len(heap) + 1]
    /\ Advance
    /\ UNCHANGED <<fs, log, db, cache, result, out>>

\* df.groupby(['State','Date']).mean()
\* df.groupby(['State','Date'], as_index=False).mean()
GroupbyMeanStmt ==
    /\ At("groupby_mean")
    /\ Display(GroupbyMean(Df, <<"State", "Date">>, Cur.args[1]))

\* The average taken over the State alone.
state_return_average_by_state(f) == TransformMean(f, <<"State">>)

\* df.groupby(['State','Date']).transform('mean'), the aggregation only
state_return_average(f) == TransformMean(f, <<"State", "Date">>)

\* df['State Return Average'] = df.groupby(['State','Date']).transform('mean')
\* A frame is assigned to one column: it must have exactly one.
TransformMeanStmt ==
    /\ At("transform_mean")
    /\ LET t == state_return_average(Df)
       IN /\ Len(t.cols) = 1
          /\ InPlace(env.df, SetColumn(Df, "State Return Average", Column(t, t.cols[1])))

\* df['Ratio'] = df['Return'] / df['State Return Average']
RatioStmt ==
    /\ At("ratio")
    /\ InPlace(env.df, SetColumn(Df, "Ratio",
                 SeriesDiv(Column(Df, "Return"), Column(Df, "State Return Average"))))

\* df['Ratio Size'] = df['Ratio'].apply(sort_ratios)
ApplySortRatios ==
    /\ At("apply_sort_ratios")
    /\ InPlace(env.df, SetColumn(Df, "Ratio Size", apply_sort_ratios(Column(Df, "Ratio"))))

\* df.applymap(sort_ratios)
ApplyMapStmt ==
    /\ At("applymap")
    /\ Display(applymap_sort_ratios(Df))

\* df = df.merge(employment_df, how='left', on='State'): df is bound to a new frame
MergeStmt ==
    /\ At("merge")
    /\ heap' = Append(heap, Merge(Df, employment_df, "State"))
    /\ env' = [env EXCEPT !.df = Len(heap) + 1]
    /\ Advance
    /\ UNCHANGED <<fs, log, db, cache, result, out>>

\* Binding a second name to the same object, which is not what copy() does.
df_alias(h, id) == [heap |-> h, ref |-> id]

\* df.copy(): a new object with the same content
df_copy(h, id) == [heap |-> Append(h, h[id]), ref |-> Len(h) + 1]

\* copy_df = df.copy()
CopyStmt ==
    /\ At("copy")
    /\ LET c == df_copy(heap, env.df)
       IN /\ heap' = c.heap
          /\ env' = [env EXCEPT !.copy_df = c.ref]
    /\ Advance
    /\ UNCHANGED <<fs, log, db, cache, result, out>>

\* copy_df['Extra Column'] = 5
ExtraColStmt ==
    /\ At("extra_col")
    /\ InPlace(env.copy_df, SetColumnScalar(CopyDf, "Extra Column", IntV(5)))

\* copy_df.drop('Ratio Size', axis=1, inplace=True)
DropColStmt ==
    /\ At("drop_col")
    /\ InPlace(env.copy_df, Drop(CopyDf, "Ratio Size"))

\* df.append(copy_df)
AppendStmt ==
    /\ At("append")
    /\ Display(AppendFrame(Df, CopyDf))

\* df.sort_values(['Company', 'Date'], inplace=True)
SortValuesStmt ==
    /\ At("sort_values")
    /\ InPlace(env.df, SortValues(Df, <<"Company", "Date">>))

\* df['Lag Return'] = df['Return'].shift(1)
ShiftStmt ==
    /\ At("shift")
    /\ InPlace(env.df, SetColumn(Df, "Lag Return", Shift(Column(Df, "Return"))))

\* df['Lag Return'] = df.groupby('Company')['Return'].shift(1)
GroupShiftStmt ==
    /\ At("group_shift")
    /\ InPlace(env.df, SetColumn(Df, "Lag Return", GroupShift(Df, "Company", "Return")))

\* df['Date'] = pd.to_datetime(df['Date'])
ToDatetimeStmt ==
    /\ At("to_datetime")
    /\ InPlace(env.df, SetColumn(Df, "Date", ToDatetime(Column(Df, "Date"))))

\* df.rename(columns={'Ratio Size': 'ratio_size'}, inplace=True)
RenameStmt ==
    /\ At("rename")
    /\ InPlace(env.df, Rename(Df, "Ratio Size", "ratio_size"))

(***************************************************************************)
(* Files.                                                                  *)
(***************************************************************************)
\* open(filepath, 'w') / df.to_csv / df.to_excel / df.to_stata / the figure
\* saved by pl.Figure.from_dict_of_names_and_plt_figures(..., '.')
WriteFile ==
    /\ At("write")
    /\ fs' = fs \cup {Cur.args[1]}
    /\ log' = Append(log, <<"write", Cur.args[1]>>)
    /\ Advance
    /\ UNCHANGED <<db, cache, result, heap, env, out>>

\* pd.read_csv / pd.read_excel / pd.read_stata: the file must exist
ReadFile ==
    /\ At("read")
    /\ Cur.args[1] \in fs
    /\ log' = Append(log, <<"read", Cur.args[1]>>)
    /\ Advance
    /\ UNCHANGED <<fs, db, cache, result, heap, env, out>>

\* A loop that asks os.path.exists(file) before os.remove(file), which the
\* scripts' loops do not: a file that is not there is passed over.
RemoveFileIfExists ==
    /\ At("remove")
    /\ LET file == Cur.args[it + 1]
       IN /\ fs' = fs \ {file}
          /\ log' = IF file \in fs THEN Append(log, <<"remove", file>>) ELSE log
          /\ db' = {e \in db : e.path # file}
    /\ IF it + 1 = Len(Cur.args)
       THEN pc' = pc + 1 /\ it' = 0
       ELSE pc' = pc /\ it' = it + 1
    /\ UNCHANGED <<script, status, data, value, returned, cache, result, heap, env, out>>

\* One iteration of  for file in <list>: os.remove(file).  os.remove does
\* not complete on a file that is not there.
RemoveFile ==
    /\ At("remove")
    /\ LET file == Cur.args[it + 1]
       IN /\ file \in fs
          /\ fs' = fs \ {file}
          /\ log' = Append(log, <<"remove", file>>)
          /\ db' = {e \in db : e.path # file}
    /\ IF it + 1 = Len(Cur.args)
       THEN pc' = pc + 1 /\ it' = 0
       ELSE pc' = pc /\ it' = it + 1
    /\ UNCHANGED <<script, status, data, value, returned, cache, result, heap, env, out>>

(***************************************************************************)
(* The object cache.  objcache keeps the stored objects in a ZODB file     *)
(* storage at the given path; which of the storage's companion files       *)
(* (index, lock, tmp) exist after an operation is the library's business.  *)
(***************************************************************************)
ZodbCompanions(path) ==
    IF path = "cache.zodb"
    THEN {"cache.zodb.index", "cache.zodb.lock", "cache.zodb.tmp"}
    ELSE {}

\* The write events of the files an operation created, in a fixed order.
Created(path, old, new) ==
    LET order == <<path, "cache.zodb.index", "cache.zodb.lock", "cache.zodb.tmp">>
        made == SelectSeq(order, LAMBDA f : f \in new \ old)
    IN [i \in DOMAIN made |-> <<"write", made[i]>>]

\* cache = ObjectCache(path, key)
CacheOpen ==
    /\ At("cache_open")
    /\ \E extra \in SUBSET ZodbCompanions(Cur.args[1]) :
          /\ fs' = fs \cup {Cur.args[1]} \cup extra
          /\ log' = log \o Created(Cur.args[1], fs, fs')
    /\ cache' = [path |-> Cur.args[1], key |-> Cur.args[2]]
    /\ Advance
    /\ UNCHANGED <<db, result, heap, env, out>>

\* cache.store(obj): obj is kept in the file under the handle's key.
CacheStore ==
    /\ At("cache_store")
    /\ cache.path \in fs
    /\ \E extra \in SUBSET ZodbCompanions(cache.path) :
          /\ fs' = fs \cup extra
          /\ log' = log \o <<<<"write", cache.path>>>> \o Created(cache.path, fs, fs')
    /\ db' = {e \in db : ~(e.path = cache.path /\ e.key = cache.key)}
             \cup {[path |-> cache.path, key |-> cache.key, val |-> Cur.args[1]]}
    /\ Advance
    /\ UNCHANGED <<cache, result, heap, env, out>>

\* result = cache.get(): the object the file holds under the handle's key.
\* For a key the file does not hold the library raises or returns None.
CacheGet ==
    /\ At("cache_get")
    /\ cache.path \in fs
    /\ \E extra \in SUBSET ZodbCompanions(cache.path) :
          /\ fs' = fs \cup extra
          /\ log' = log \o Created(cache.path, fs, fs')
    /\ LET held == {e \in db : e.path = cache.path /\ e.key = cache.key}
       IN result' = IF held = {} THEN None ELSE (CHOOSE e \in held : TRUE).val
    /\ Advance
    /\ UNCHANGED <<db, cache, heap, env, out>>

(***************************************************************************)
(* Exceptions.  No statement of either script is inside a try block: a     *)
(* statement that raises ends the run there.  Any statement may raise; a   *)
(* statement that creates files may have created them before it raised.    *)
(***************************************************************************)
LeftBehind ==
    IF Cur.op = "write" THEN {{}, {Cur.args[1]}}
    ELSE IF Cur.op = "cache_open"
         THEN SUBSET ({Cur.args[1]} \cup ZodbCompanions(Cur.args[1]))
    ELSE IF Cur.op \in {"cache_store", "cache_get"}
         THEN SUBSET ZodbCompanions(cache.path)
    ELSE {{}}

\* What a try/finally around the script would do, which the scripts do not.
RaiseThenCleanUp ==
    /\ Running
    /\ status' = "raised"
    /\ fs' = {}
    /\ UNCHANGED <<script, pc, it, log, db, cache, result, data, heap, env, out,
                   value, returned>>

Raise ==
    /\ Running
    /\ status' = "raised"
    /\ \E left \in LeftBehind : fs' = fs \cup left
    /\ UNCHANGED <<script, pc, it, log, db, cache, result, data, heap, env, out,
                   value, returned>>

Next ==
    \/ Eval
    \/ MakeDf
    \/ GroupbyMeanStmt
    \/ TransformMeanStmt
    \/ RatioStmt
    \/ ApplySortRatios
    \/ ApplyMapStmt
    \/ MergeStmt
    \/ CopyStmt
    \/ ExtraColStmt
    \/ DropColStmt
    \/ AppendStmt
    \/ SortValuesStmt
    \/ ShiftStmt
    \/ GroupShiftStmt
    \/ ToDatetimeStmt
    \/ RenameStmt
    \/ WriteFile
    \/ ReadFile
    \/ RemoveFile
    \/ CacheOpen
    \/ CacheStore
    \/ CacheGet
    \/ Raise

Spec == Init /\ [][Next]_vars

(***************************************************************************)
(* sort_ratios on its own: one call on an argument drawn from the values   *)
(* a cell can hold.                                                        *)
(***************************************************************************)
SortRatiosInputs ==
    {Flt(n, d) : n \in (-MaxNum)..(2 * MaxNum), d \in 1..MaxDen}
    \cup {Flt(1, 0), Flt(-1, 0), NaN, None}
    \cup {IntV(n) : n \in (-MaxNum)..MaxNum}
    \cup {Str("Walmart"), Str("FL"), Str("1/2/2000"), Str("Even"), Str("")}

InitSortRatios ==
    /\ script = ""
    /\ data = <<>>
    /\ pc = 1
    /\ it = 0
    /\ status = "running"
    /\ fs = {}
    /\ log = <<>>
    /\ db = {}
    /\ cache = NoHandle
    /\ result = Unbound
    /\ heap = <<>>
    /\ env = [df |-> 0, copy_df |-> 0]
    /\ out = NoFrame
    /\ value \in SortRatiosInputs
    /\ returned = Unbound

CallSortRatios ==
    /\ script = ""
    /\ returned = Unbound
    /\ returned' = sort_ratios(value)
    /\ UNCHANGED <<script, pc, it, status, fs, log, db, cache, result, data, heap,
                   env, out, value>>

NextSortRatios == CallSortRatios

SpecSortRatios == InitSortRatios /\ [][NextSortRatios]_vars

(***************************************************************************)
(* replace_fixed_effects_cols (data_management_in_python.py:498-504) on    *)
(* its own: one call on a summary table as summary_col builds it.  The     *)
(* table has, for each regressor of the models, a row of estimates         *)
(* labelled with the regressor and a row of standard errors labelled '',   *)
(* the regressors in the order of their names, and then the rows of the    *)
(* info_dict.  A cell is written as the name of the regressor it is about. *)
(***************************************************************************)
\* The regressors of the three formulas, in the order of their names.
SummaryRegressors ==
    <<"C(ratio_size)[T.High]", "C(ratio_size)[T.Low]", "Intercept", "Ratio",
      "Unemployment", "Unemployment:Ratio">>

\* One column per result of reg_list = [result, result2, result3]
SummaryColumns == <<"Return I", "Return II", "Return III">>

\* summary_col(reg_list, stars=True, info_dict={'N': ..., 'Adj-R2': ...}).tables[0]
SummaryTable(regs) ==
    LET labels == Flatten([i \in DOMAIN regs |-> <<regs[i], "">>]) \o <<"N", "Adj-R2">>
        about == Flatten([i \in DOMAIN regs |-> <<regs[i], regs[i]>>]) \o <<"N", "Adj-R2">>
    IN [cols |-> SummaryColumns,
        index |-> labels,
        rows |-> [i \in DOMAIN about |-> [c \in Range(SummaryColumns) |-> Str(about[i])]]]

\* df.iloc[n:]
iloc_from(f, n) ==
    [cols |-> f.cols,
     index |-> SubSeq(f.index, n + 1, Len(f.index)),
     rows |-> SubSeq(f.rows, n + 1, Len(f.rows))]

\* df.loc[label] = <tuple>: every row with the label is set, and a row is
\* added at the end when there is none.
set_row(f, label, tuple) ==
    LET row == [c \in Range(f.cols) |-> tuple[IndexOf(f.cols, c)]]
    IN IF label \in Range(f.index)
       THEN [cols |-> f.cols,
             index |-> f.index,
             rows |-> [i \in DOMAIN f.rows |->
                         IF f.index[i] = label THEN row ELSE f.rows[i]]]
       ELSE [cols |-> f.cols,
             index |-> Append(f.index, label),
             rows |-> Append(f.rows, row)]

replace_fixed_effects_cols(df) ==
    set_row(iloc_from(df, 4), "Ratio Size Fixed Effects",
            <<Str("No"), Str("Yes"), Str("No")>>)

\* The summary tables of models over any of the regressors.
SummaryInputs ==
    {SelectSeq(SummaryRegressors, LAMBDA r : r \in S) :
        S \in SUBSET Range(SummaryRegressors) \ {{}}}

InitFixedEffects ==
    /\ script = ""
    /\ data \in SummaryInputs
    /\ pc = 1
    /\ it = 0
    /\ status = "running"
    /\ fs = {}
    /\ log = <<>>
    /\ db = {}
    /\ cache = NoHandle
    /\ result = Unbound
    /\ heap = <<SummaryTable(data)>>
    /\ env = [df |-> 1, copy_df |-> 0]
    /\ out = NoFrame
    /\ value = Unbound
    /\ returned = Unbound

\* clean_summ = replace_fixed_effects_cols(summ.tables[0]); clean_summ
CallReplaceFixedEffectsCols ==
    /\ script = ""
    /\ env.df = 1
    /\ Len(heap) = 1
    /\ heap' = Append(heap, replace_fixed_effects_cols(heap[env.df]))
    /\ out' = replace_fixed_effects_cols(heap[env.df])
    /\ UNCHANGED <<script, pc, it, status, fs, log, db, cache, result, data, env,
                   value, returned>>

NextFixedEffects == CallReplaceFixedEffectsCols

SpecFixedEffects == InitFixedEffects /\ [][NextFixedEffects]_vars

(***************************************************************************)
(* What the claims speak of.                                               *)
(***************************************************************************)
\* The files with a completed operation op in the log.
Events(op) == {log[i][2] : i \in {j \in DOMAIN log : log[j][1] = op}}

Written == Events("write")
Removed == Events("remove")

\* The positions in the log of operation op on file f.
Positions(op, f) == {i \in DOMAIN log : log[i] = <<op, f>>}

\* The files named in the cleanup lists of the running script.
CleanupListed ==
    IF script = "dm" THEN Range(clean_files)
    ELSE Range(temp_files_pyexlatex) \cup Range(temp_files_objcache)

TabularExports == {"temp.csv", "temp.xlsx", "temp.dta"}
CacheFiles == {"cache.zodb", "cache.zodb.index", "cache.zodb.lock", "cache.zodb.tmp"}

\* The position in the data-management script of the statement on a line.
DMIndex(line) == CHOOSE i \in DOMAIN DMScript : DMScript[i].line = line

\* The data-management script has completed the statement on the line.
DMPast(line) == script = "dm" /\ pc > DMIndex(line)

\* C1: when a script has run to its end with every step completed, no file
\* it wrote is left in the working directory, and every file it wrote is
\* named in one of its cleanup lists.
C1_NoWrittenFileLeft ==
    Finished =>
        /\ Written # {}
        /\ \A f \in Written : f \notin fs /\ f \in CleanupListed

C1_Witness ==
    /\ Finished
    /\ script = "at"
    /\ {"My Subfigure.pdf", "cache.zodb", "cache.zodb.lock"} \subseteq Written

\* C2 as stated: every file a script writes, removes or leaves is a tabular
\* export, temp.tex or an object-cache file.
C2_OnlyTablesTexAndCache ==
    /\ \A i \in DOMAIN log : log[i][2] \in TabularExports \cup {"temp.tex"} \cup CacheFiles
    /\ fs \subseteq TabularExports \cup {"temp.tex"} \cup CacheFiles

\* C2 amended: every file a script writes, removes or leaves is a tabular
\* export, temp.tex, an object-cache file or the figure 'My Subfigure.pdf'.
C2_OnlyTablesTexCacheAndFigure ==
    /\ \A i \in DOMAIN log :
          log[i][2] \in TabularExports \cup {"temp.tex", "My Subfigure.pdf"} \cup CacheFiles
    /\ fs \subseteq TabularExports \cup {"temp.tex", "My Subfigure.pdf"} \cup CacheFiles

C2_Witness ==
    /\ script = "at"
    /\ "My Subfigure.pdf" \in Written \cap Removed
    /\ "cache.zodb" \in fs

\* C3 as stated: in each script, once a removal has completed, every
\* further statement that completes is a removal.
C3_RemovalsComeLast ==
    [][(Removed # {} /\ status' = "running") => Cur.op = "remove"]_vars

\* C3 amended: in the data-management script, once a removal has completed,
\* every further step is taken at a removal statement; in the
\* additional-tools script that holds once a removal of an object-cache file
\* has completed, and not after the removal of 'My Subfigure.pdf'.
C3_LastRemovalsComeLast ==
    [][(\/ script = "dm" /\ Removed # {}
        \/ script = "at" /\ Removed \cap Range(temp_files_objcache) # {})
       => Cur.op = "remove"]_vars

C3_Witness ==
    /\ script = "dm"
    /\ Running
    /\ Cardinality(Removed) >= 2

\* C4 as stated: when a step has raised, the cleanup loop has not run and
\* every file written before still exists.
C4_AllWrittenFilesRemain ==
    status = "raised" => Removed = {} /\ Written \subseteq fs

\* C4 amended: when a step has raised, nothing further happens, and every
\* file written before that a removal had not already removed still exists.
C4_UnremovedFilesRemain ==
    /\ [](status = "raised" => (Written \ Removed) \subseteq fs)
    /\ [][status = "raised" => UNCHANGED vars]_vars

C4_Witness ==
    /\ status = "raised"
    /\ script = "dm"
    /\ Removed = {"temp.csv"}
    /\ fs = {"temp.xlsx", "temp.dta", "temp.tex"}

\* C5: in the data-management script each tabular export is written at most
\* once, read only after its write and removed only after its read;
\* temp.tex is written at most once, never read, and removed only after
\* its write; no file is read or written after its removal; and at the end
\* of a complete run each has been written once and removed.
C5_WriteReadRemoveOrder ==
    script = "dm" =>
        /\ \A f \in TabularExports \cup {"temp.tex"} :
              /\ Cardinality(Positions("write", f)) <= 1
              /\ \A i \in Positions("remove", f) :
                    \A j \in DOMAIN log : j > i => log[j][2] # f
              /\ Finished => /\ Cardinality(Positions("write", f)) = 1
                             /\ Cardinality(Positions("remove", f)) = 1
        /\ \A f \in TabularExports :
              /\ \A i \in Positions("read", f) :
                    \E j \in Positions("write", f) : j < i
              /\ \A i \in Positions("remove", f) :
                    \E j \in Positions("read", f) : j < i
        /\ Positions("read", "temp.tex") = {}
        /\ \A i \in Positions("remove", "temp.tex") :
              \E j \in Positions("write", "temp.tex") : j < i

C5_Witness ==
    /\ script = "dm"
    /\ Finished
    /\ Len(log) = 11

\* C6: whenever the additional-tools script has bound result, which the
\* get() through the later session's handle does, result is 5.
C6_GetReturnsStored ==
    (script = "at" /\ result # Unbound) => result = IntV(5)

C6_Witness ==
    /\ script = "at"
    /\ result = IntV(5)
    /\ cache = [path |-> "cache.zodb", key |-> <<"a", "b">>]

\* A value is a number: a float (missing or not) or an int.
IsNumber(v) == v.k \in {"float", "int", "nan"}

\* C7 as stated: sort_ratios returns its argument as it is exactly when the
\* argument is missing or is not a number, and sorts every number that is
\* not missing into 'Even', 'Low' or 'High'.
C7_SortsEveryNumber ==
    returned # Unbound =>
        /\ (returned = value) <=> (isnull(value) \/ ~IsNumber(value))
        /\ (IsNumber(value) /\ ~isnull(value))
              => returned \in {Str("Even"), Str("Low"), Str("High")}

\* C8: once the per-company lag has been assigned, the frame is in
\* (Company, Date) order and every row's 'Lag Return' is the 'Return' of
\* the nearest earlier row of the same Company, missing when there is none.
C8_LagFromSameCompany ==
    DMPast(280) =>
        /\ \A i, j \in DOMAIN Df.rows :
              i < j => ~TupleLess(KeyOf(Df, j, <<"Company", "Date">>),
                                  KeyOf(Df, i, <<"Company", "Date">>))
        /\ \A i \in DOMAIN Df.rows :
              LET earlier == {j \in 1..(i - 1) :
                                Df.rows[j]["Company"] = Df.rows[i]["Company"]}
              IN IF earlier = {} THEN Df.rows[i]["Lag Return"] = NaN
                 ELSE Df.rows[i]["Lag Return"] =
                        Df.rows[CHOOSE j \in earlier : \A k \in earlier : k <= j]["Return"]

C8_Witness ==
    /\ DMPast(280)
    /\ \E i \in DOMAIN Df.rows : i > 1 /\ Df.rows[i]["Lag Return"] = NaN
    /\ \E i \in DOMAIN Df.rows : Df.rows[i]["Lag Return"] # NaN

\* A return in hundredths.
Hundredths(v) == (v.n * 100) \div v.d

RECURSIVE SumReturns(_, _)
\* The sum, in hundredths, of the returns of the rows at the positions S.
SumReturns(f, S) ==
    IF S = {} THEN 0
    ELSE LET i == CHOOSE x \in S : TRUE
         IN Hundredths(f.rows[i]["Return"]) + SumReturns(f, S \ {i})

\* The rows of f that share the State and the Date of row i.
SameStateDate(f, i) ==
    {j \in DOMAIN f.rows : /\ f.rows[j]["State"] = f.rows[i]["State"]
                           /\ f.rows[j]["Date"] = f.rows[i]["Date"]}

\* C9: the frame with 'State Return Average' has the rows it was built
\* with, in their order until it is sorted, and each row's value is the mean
\* of 'Return' over the rows of its State and Date; the plain groupby
\* aggregation displayed before has one row per distinct (State, Date).
C9_TransformKeepsRows ==
    /\ (script = "dm" /\ pc = DMIndex(139) + 1) =>
          Len(out.rows) = Cardinality({<<data[i][2], data[i][3]>> : i \in DOMAIN data})
    /\ DMPast(159) =>
          /\ Len(Df.rows) = Len(data)
          /\ ~DMPast(221) => Df.index = RangeIndex(Len(data))
          /\ ~DMPast(271) =>
                \A i \in DOMAIN data : \A c \in DOMAIN DfColumns :
                    Df.rows[i][DfColumns[c]] = data[i][c]
          /\ \A i \in DOMAIN Df.rows :
                LET v == Df.rows[i]["State Return Average"]
                    G == SameStateDate(Df, i)
                IN /\ v.k = "float"
                   /\ v.n * 100 * Cardinality(G) = v.d * SumReturns(Df, G)

C9_Witness ==
    /\ DMPast(159)
    /\ ~DMPast(167)
    /\ Len(data) <= MaxRows
    /\ \E i \in DOMAIN Df.rows :
          /\ Cardinality(SameStateDate(Df, i)) = 2
          /\ Hundredths(Df.rows[i]["State Return Average"])
                # Hundredths(Df.rows[i]["Return"])

\* C10: a step taken at df.applymap(sort_ratios), at copy_df = df.copy(),
\* at the two changes of copy_df or at df.append(copy_df) leaves df bound to
\* the same frame, with the same columns, index and cells.
C10_DisplayLeavesDf ==
    [][(Running /\ Cur.op \in {"applymap", "copy", "extra_col", "drop_col", "append"})
       => /\ env'.df = env.df
          /\ heap'[env.df] = heap[env.df]]_vars

C10_Witness ==
    /\ script = "dm"
    /\ pc = DMIndex(233) + 1
    /\ Len(out.rows) = 2 * Len(Df.rows)
    /\ "Extra Column" \in Range(out.cols) \ Range(Df.cols)
    /\ "Ratio Size" \in Range(Df.cols) \ Range(CopyDf.cols)
    /\ \E i \in DOMAIN Df.rows : Df.rows[i]["Ratio Size"] = Str("Low")

\* The rows of a summary table that belong to a fixed-effect dummy: its
\* estimates and its standard errors.
FixedEffectDummies == {"C(ratio_size)[T.High]", "C(ratio_size)[T.Low]"}

IsDummyRow(f, i) == f.rows[i][SummaryColumns[1]].s \in FixedEffectDummies

\* C11 as stated: the rows of the table that are missing from the result of
\* replace_fixed_effects_cols are exactly the fixed-effect dummy rows: the
\* result holds, before the row the function adds, the other rows of the
\* table in their order.
C11_RemovesExactlyDummyRows ==
    (script = "" /\ env.df = 1 /\ Len(heap) = 2) =>
        LET table == heap[1]
            kept == SelectSeq([i \in DOMAIN table.rows |-> i],
                              LAMBDA i : ~IsDummyRow(table, i))
            n == Len(heap[2].rows) - 1
        IN /\ SubSeq(heap[2].rows, 1, n) = [k \in DOMAIN kept |-> table.rows[kept[k]]]
           /\ SubSeq(heap[2].index, 1, n) = [k \in DOMAIN kept |-> table.index[kept[k]]]

\* C12: a cleanup loop removes the files of its list in list order and does
\* not ask whether a file exists.  While the loop is at a file, the files
\* before it in the list are the loop's removals so far, in list order, and
\* are gone; an iteration that completes removes the file it is at and
\* nothing else; and when the file it is at is absent, the only step is the
\* error, which removes nothing, after which no step is taken: the later
\* files of the list stay as they are.
C12_LoopStopsAtAbsentFile ==
    /\ [][At("remove") =>
            LET list == Cur.args
                file == list[it + 1]
            IN /\ SubSeq(log, Len(log) - it + 1, Len(log))
                      = [k \in 1..it |-> <<"remove", list[k]>>]
               /\ \A k \in 1..it : list[k] \notin fs
               /\ file \notin fs =>
                      status' = "raised" /\ fs' = fs /\ log' = log /\ it' = it
               /\ status' = "running" =>
                      /\ file \in fs
                      /\ fs' = fs \ {file}
                      /\ log' = Append(log, <<"remove", file>>)]_vars
    /\ [][status = "raised" => UNCHANGED vars]_vars

\* A cleanup loop has stopped with an error at a listed file that is absent,
\* after it removed the files before it, with a later file of the list
\* still on disk.
C12_Witness ==
    /\ status = "raised"
    /\ pc \in DOMAIN Script
    /\ Cur.op = "remove"
    /\ it >= 1
    /\ Cur.args[it + 1] \notin fs
    /\ \A k \in 1..it : <<"remove", Cur.args[k]>> \in Range(log)
    /\ \E k \in (it + 2)..Len(Cur.args) : Cur.args[k] \in fs

=============================================================================
